---- MODULE Spec2Model ----
(***************************************************************************)
(* The tool-calling round loop of backend/ai_generator.py:                 *)
(* AIGenerator.generate_response and AIGenerator._handle_tool_execution.   *)
(*                                                                         *)
(* The completion engine (client.messages.create) and the tool manager     *)
(* (tool_manager.execute_tool) are external: every call to one of them is  *)
(* a suspension point, and what it returns or raises is chosen             *)
(* nondeterministically.  The code between two suspension points is one    *)
(* atomic step.                                                            *)
(***************************************************************************)
EXTENDS Integers, Sequences, FiniteSets, TLC

VARIABLES
    base_params,        \* self.base_params, built by __init__
    pc,                 \* where the call of generate_response stands
    query,              \* argument query
    conversation_history, \* argument conversation_history
    tools,              \* argument tools
    tool_manager,       \* argument tool_manager
    api_params,         \* local api_params of generate_response
    messages,           \* local messages of _handle_tool_execution
    current_response,   \* local response / current_response
    round_count,        \* loop variable of "for round_count in range(...)"
    block_index,        \* position of the inner loop over current_response.content
    tool_results,       \* local tool_results of the current round
    effects,            \* the external calls made by this call, in order
    responses,          \* what the completion engine answered, in order
    tool_outcomes,      \* what execute_tool answered, in order
    outcome,            \* how generate_response ended
    registered_tools,   \* the tools of the tool manager, in registration order
    last_sources,       \* last_sources of each tool that keeps sources
    manager_call,       \* the last call of a method of the tool manager
    manager_result,     \* what that call returned or raised
    rag_pc,             \* where each thread's call of RAGSystem.query stands
    query_id,           \* the number of the query each thread runs
    queries_started,    \* the queries started so far
    dispatches,         \* the tool dispatches of each thread's query so far
    collected,          \* the sources each thread's query got
    collected_from,     \* the queries whose dispatches produced them
    source_owner,       \* the query whose dispatch wrote each tool's sources
    produced,           \* the thread's query left sources of its own
    reset_calls,        \* the calls of reset_sources of each thread's query
    concurrent,         \* another query ran while the thread's query did
    stale_start,        \* sources were held when the thread's query began
    api_request,        \* the request the query endpoint handled last
    api_response,       \* its response
    create_session_calls, \* the calls of session_manager.create_session
    rag_query_args,     \* the arguments of the last call of rag_system.query
    requests_served,    \* the requests handled so far
    calls               \* the locals of each thread's call of generate_response

generator_vars ==
    << base_params, pc, query, conversation_history, tools, tool_manager,
       api_params, messages, current_response, round_count, block_index,
       tool_results, effects, responses, tool_outcomes, outcome >>

registry_vars ==
    << registered_tools, last_sources, manager_call, manager_result >>

query_vars ==
    << rag_pc, query_id, queries_started, dispatches, collected,
       collected_from, source_owner, produced, reset_calls, concurrent,
       stale_start >>

api_vars ==
    << api_request, api_response, create_session_calls, rag_query_args,
       requests_served >>

call_vars == << calls >>

\* the arguments and locals of the one call of generate_response
call_locals ==
    << pc, query, conversation_history, tools, tool_manager, api_params,
       messages, current_response, round_count, block_index, tool_results,
       effects, responses, tool_outcomes, outcome >>

vars == << generator_vars, registry_vars, query_vars, api_vars, call_vars >>

----------------------------------------------------------------------------
(* Bounds of the model *)

\* the longest content list the completion engine answers with
MaxBlocks == 2

\* the most documents the retrieval backend answers a search with
MaxDocs == 2

\* the most queries started, and the most tools one query dispatches
MaxQueries == 3
MaxDispatches == 2

\* the most requests the query endpoint handles
MaxRequests == 4

----------------------------------------------------------------------------
(* Values *)

\* Python's None, and a present value
None == [none |-> TRUE]
Some(v) == [some |-> v]
IsNone(x) == "none" \in DOMAIN x

MAX_TOOL_ROUNDS == 2

SYSTEM_PROMPT == "SYSTEM_PROMPT"

MODEL == "claude-test"

Queries == {"q"}

Histories == {None, Some(""), Some("User: hi")}

\* tool definition lists a caller passes: None, the empty list, a list
ToolLists == {None, Some(<< >>), Some(<< [name |-> "search_course_content"] >>)}

ToolManagers == {None, Some("tool_manager")}

\* content blocks of a response
TextBlock(t) == [type |-> "text", text |-> t]
ToolUseBlock(i, n, a) == [type |-> "tool_use", id |-> i, name |-> n, input |-> a]

\* The completion engine's answer to its n-th call.  A text block carries a
\* text of that answer; a tool_use block carries an id the engine issues once
\* (per call and position), and a tool name and arguments.
AnswerText(n) == "answer " \o ToString(n)

ToolUseAt(n, p) ==
    LET id == "toolu_" \o ToString(n) \o "_" \o ToString(p)
    IN  IF p % 2 = 1
        THEN ToolUseBlock(id, "search_course_content", [query |-> "x"])
        ELSE ToolUseBlock(id, "get_course_outline", [course_name |-> "ML"])

BlockTypes == {"text", "tool_use"}

Contents(n) ==
    UNION { { [p \in 1..len |-> IF types[p] = "text"
                                THEN TextBlock(AnswerText(n))
                                ELSE ToolUseAt(n, p)] :
              types \in [1..len -> BlockTypes] } : len \in 0..MaxBlocks }

StopReasons == {"end_turn", "tool_use"}

Responses(n) == [content : Contents(n), stop_reason : StopReasons]

\* what the completion engine may raise
EngineErrors == {"API down"}

\* what execute_tool may return, and the detail of what it may raise
ToolTexts == {"tool result text"}
ToolErrors == {"DB connection failed"}

NoResponse == [content |-> << >>, stop_reason |-> "none"]
NoOutcome == [kind |-> "none"]
Return(v) == [kind |-> "return", value |-> v]
Raise(e) == [kind |-> "raise", exc |-> e]

----------------------------------------------------------------------------
(* Pure parts of the code *)

\* truth value of an optional string or list
Truthy(x) == ~IsNone(x) /\ Len(x.some) > 0

\* a bug: "if conversation_history is not None"
SystemContent_NotNone(history) ==
    IF ~IsNone(history)
    THEN << SYSTEM_PROMPT, "\n\nPrevious conversation:\n", history.some >>
    ELSE << SYSTEM_PROMPT >>

\* the system text, as the sequence of the pieces the f-string joins
SystemContent(history) ==
    IF Truthy(history)
    THEN << SYSTEM_PROMPT, "\n\nPrevious conversation:\n", history.some >>
    ELSE << SYSTEM_PROMPT >>

\* api_params["tools"] = tools; api_params["tool_choice"] = {"type": "auto"}
WithTools(params, tls) ==
    [tools |-> tls.some, tool_choice |-> [type |-> "auto"]] @@ params

\* a bug: "if tools is not None" in place of "if tools"
ApiParams_ToolsNotNone(bp, q, history, tls) ==
    LET p == [messages |-> << [role |-> "user", content |-> q] >>,
              system |-> SystemContent(history)] @@ bp
    IN  IF ~IsNone(tls) THEN WithTools(p, tls) ELSE p

ApiParams(bp, q, history, tls) ==
    LET p == [messages |-> << [role |-> "user", content |-> q] >>,
              system |-> SystemContent(history)] @@ bp
    IN  IF Truthy(tls) THEN WithTools(p, tls) ELSE p

\* a bug: the stop reason is not looked at
EntersToolLoop_IgnoresStopReason(resp, tm) == ~IsNone(tm)

\* response.stop_reason == "tool_use" and tool_manager
EntersToolLoop(resp, tm) == resp.stop_reason = "tool_use" /\ ~IsNone(tm)

\* response.content[0].text
FirstText(content) ==
    IF Len(content) = 0 THEN Raise("IndexError")
    ELSE IF content[1].type = "text" THEN Return(content[1].text)
    ELSE Raise("AttributeError")

AssistantMessage(resp) == [role |-> "assistant", content |-> resp.content]

ToolResultsMessage(results) == [role |-> "user", content |-> results]

\* f"Tool execution error: {e}"
ToolErrorText(e) == "Tool execution error: " \o e

ToolResultBlock(block, text) ==
    [type |-> "tool_result", tool_use_id |-> block.id, content |-> text]

\* a bug: the result put in front of the earlier ones
AddToolResult_Prepend(results, block, text) ==
    << ToolResultBlock(block, text) >> \o results

\* tool_results.append({...})
AddToolResult(results, block, text) ==
    Append(results, ToolResultBlock(block, text))

\* a bug: the last request of the answer is taken first
NextToolUse_LastFirst(content, i) ==
    LET uses == { k \in i..Len(content) : content[k].type = "tool_use" }
    IN  IF uses = {} THEN (IF i > Len(content) THEN i ELSE Len(content) + 1)
        ELSE CHOOSE k \in uses : \A m \in uses : m <= k

\* the first tool_use block of content at or after position i, else Len + 1
RECURSIVE NextToolUse(_, _)
NextToolUse(content, i) ==
    IF i > Len(content) THEN i
    ELSE IF content[i].type = "tool_use" THEN i
    ELSE NextToolUse(content, i + 1)

\* a bug: without tool results the assistant message of the round is dropped
AppendToolResults_DropsAssistant(msgs, results) ==
    IF Len(results) > 0 THEN Append(msgs, ToolResultsMessage(results))
    ELSE SubSeq(msgs, 1, Len(msgs) - 1)

\* a bug: the tool results appended before the assistant message of the round
AppendToolResults_BeforeAssistant(msgs, results) ==
    IF Len(results) > 0
    THEN SubSeq(msgs, 1, Len(msgs) - 1) \o
         << ToolResultsMessage(results), msgs[Len(msgs)] >>
    ELSE msgs

\* a bug: the transcript rebuilt from the query and the newest tool results
AppendToolResults_Rebuilds(msgs, results) ==
    IF Len(results) > 0
    THEN << msgs[1], ToolResultsMessage(results) >>
    ELSE msgs

\* a bug: the tool-result message appended without the test of tool_results
AppendToolResults_Always(msgs, results) ==
    Append(msgs, ToolResultsMessage(results))

\* messages.append(...) "if tool_results"
AppendToolResults(msgs, results) ==
    IF Len(results) > 0 THEN Append(msgs, ToolResultsMessage(results)) ELSE msgs

\* a bug: the comparison of the final round off by one
IsFinalRound_OffByOne(rc) == (rc + 1) > MAX_TOOL_ROUNDS

IsFinalRound(rc) == (rc + 1) >= MAX_TOOL_ROUNDS

\* a bug: the calls of the loop get the bare system prompt
NextParams_BareSystem(bp, msgs, system, tls, rc) ==
    LET p == [messages |-> msgs, system |-> << SYSTEM_PROMPT >>] @@ bp
    IN  IF ~IsFinalRound(rc) /\ Truthy(tls) THEN WithTools(p, tls) ELSE p

\* a bug: the tools offered on the call after the final round too
NextParams_AlwaysTools(bp, msgs, system, tls, rc) ==
    LET p == [messages |-> msgs, system |-> system] @@ bp
    IN  IF Truthy(tls) THEN WithTools(p, tls) ELSE p

\* a bug: the tools offered on no call of the loop
NextParams_NoTools(bp, msgs, system, tls, rc) ==
    [messages |-> msgs, system |-> system] @@ bp

NextParams(bp, msgs, system, tls, rc) ==
    LET p == [messages |-> msgs, system |-> system] @@ bp
    IN  IF ~IsFinalRound(rc) /\ Truthy(tls) THEN WithTools(p, tls) ELSE p

\* base_params.get("tools")
GetTools(params) == IF "tools" \in DOMAIN params THEN Some(params.tools) ELSE None

\* a bug: a loop without the bound of range(MAX_TOOL_ROUNDS)
LoopContinues_Unbounded(resp, rc) == resp.stop_reason = "tool_use"

\* a bug: a loop without the early break
LoopContinues_NoBreak(resp, rc) == rc + 1 < MAX_TOOL_ROUNDS

\* a bug: range(MAX_TOOL_ROUNDS + 1), one round too many
LoopContinues_OneMore(resp, rc) ==
    resp.stop_reason = "tool_use" /\ rc + 1 <= MAX_TOOL_ROUNDS

\* the loop goes on to another round: no break, and range() not exhausted
LoopContinues(resp, rc) ==
    resp.stop_reason = "tool_use" /\ rc + 1 < MAX_TOOL_ROUNDS

CreateCall(params) == [kind |-> "create", kwargs |-> params]
ExecuteCall(block) ==
    [kind |-> "execute_tool", name |-> block.name, kwargs |-> block.input]

----------------------------------------------------------------------------
(* The tool manager: ToolManager of search_tools.py, as its tests and the   *)
(* description of the tool registry give it                                 *)

\* the tool objects handed to register_tool
ToolObjects ==
    {"search_tool", "second_search_tool", "extra_tool", "outline_tool",
     "bad_tool"}

\* the tools that keep last_sources
SourceTools == {"search_tool", "second_search_tool", "extra_tool"}

\* tool.get_tool_definition()
ToolDefinition(tool) ==
    CASE tool \in {"search_tool", "second_search_tool"} ->
            [name |-> "search_course_content", description |-> "search"]
      [] tool = "extra_tool" ->
            [name |-> "search_extra_content", description |-> "search"]
      [] tool = "outline_tool" ->
            [name |-> "get_course_outline", description |-> "outline"]
      [] tool = "bad_tool" -> [description |-> "no name"]

\* the names a dispatch asks for
ToolNames ==
    {"search_course_content", "search_extra_content", "get_course_outline",
     "nonexistent_tool"}

\* what the retrieval backend knows of a document
Metadatas ==
    { [course_title |-> "A", lesson_number |-> Some(1)],
      [course_title |-> "B", lesson_number |-> None] }

\* SearchResults(documents, metadata, distances), SearchResults.empty(error)
SearchResults(metadata) ==
    [documents |-> [i \in 1..Len(metadata) |-> "doc" \o ToString(i)],
     metadata |-> metadata, error |-> None]
EmptyResults == SearchResults(<< >>)
ErrorResults(error) ==
    [documents |-> << >>, metadata |-> << >>, error |-> Some(error)]

SeqsUpTo(S, n) == UNION { [1..k -> S] : k \in 0..n }

\* what store.search answers
BackendResults ==
    { SearchResults(m) : m \in SeqsUpTo(Metadatas, MaxDocs) }
        \cup { ErrorResults("Search error: timeout") }

NoCall == [op |-> "none"]
RegisterToolCall(tool) == [op |-> "register_tool", tool |-> tool]
\* results: what store.search answered during the call
ExecuteToolCall(tool_name, results) ==
    [op |-> "execute_tool", name |-> tool_name, results |-> results]
GetLastSourcesCall == [op |-> "get_last_sources"]
ResetSourcesCall == [op |-> "reset_sources"]

\* the error of a registration, with its message as the pieces it is made of
DefinitionError(message) ==
    [type |-> "DefinitionError", isa |-> {"DefinitionError", "ValueError"},
     message |-> message]

NameMissingMessage == << "Tool ", "must have a 'name'", " in its definition" >>
NameExistsMessage(tool_name) ==
    << "Tool '", tool_name, "' ", "is already registered" >>

\* the text of a dispatch of a name that is not registered
NotFoundText(tool_name) == << "Tool '", tool_name, "' ", "not found" >>

\* the text a tool's execute returns
ToolText(tool) == << "result of ", tool >>

\* the names registered, and the place of a name among the registered tools
RegisteredNames(regd) == { regd[i].name : i \in 1..Len(regd) }
IndexOf(regd, tool_name) ==
    CHOOSE i \in 1..Len(regd) : regd[i].name = tool_name

\* a bug: a definition without a name is stored under None
Register_AcceptsNameless(regd, tool) ==
    LET defn == ToolDefinition(tool)
        tool_name == IF "name" \in DOMAIN defn THEN Some(defn.name) ELSE None
    IN  IF ~IsNone(tool_name) /\ tool_name.some \in RegisteredNames(regd)
        THEN [tools |-> regd,
              result |-> Raise(DefinitionError(NameExistsMessage(tool_name.some)))]
        ELSE [tools |-> Append(regd,
                  [name |-> IF IsNone(tool_name) THEN "None" ELSE tool_name.some,
                   tool |-> tool]),
              result |-> Return(None)]

\* a bug: a name that exists is given the new tool
Register_Overwrites(regd, tool) ==
    LET defn == ToolDefinition(tool)
    IN  IF "name" \notin DOMAIN defn
        THEN [tools |-> regd,
              result |-> Raise(DefinitionError(NameMissingMessage))]
        ELSE IF defn.name \in RegisteredNames(regd)
        THEN [tools |-> [regd EXCEPT ![IndexOf(regd, defn.name)].tool = tool],
              result |-> Return(None)]
        ELSE [tools |-> Append(regd, [name |-> defn.name, tool |-> tool]),
              result |-> Return(None)]

\* register_tool(tool): the registered tools after it, and how it ends
Register(regd, tool) ==
    LET defn == ToolDefinition(tool)
    IN  IF "name" \notin DOMAIN defn
        THEN [tools |-> regd,
              result |-> Raise(DefinitionError(NameMissingMessage))]
        ELSE IF defn.name \in RegisteredNames(regd)
        THEN [tools |-> regd,
              result |-> Raise(DefinitionError(NameExistsMessage(defn.name)))]
        ELSE [tools |-> Append(regd, [name |-> defn.name, tool |-> tool]),
              result |-> Return(None)]

\* the tools registered
RegisteredTools(regd) == { regd[i].tool : i \in 1..Len(regd) }

\* a bug: nothing cleared
Reset_Nothing(regd, sources) == sources

\* reset_sources(): the sources after it
Reset(regd, sources) ==
    [t \in SourceTools |->
        IF t \in RegisteredTools(regd) THEN << >> ELSE sources[t]]

\* store.get_lesson_link(course_title, lesson_number)
GetLessonLink(course_title, lesson_number) ==
    Some("https://example.com/" \o course_title \o "/" \o
         ToString(lesson_number))

\* a bug: the lesson left out of the label
SourceRecord_BareTitle(meta) ==
    [label |-> meta.course_title,
     link |-> IF IsNone(meta.lesson_number) THEN None
              ELSE GetLessonLink(meta.course_title, meta.lesson_number.some)]

\* the source record of one document
SourceRecord(meta) ==
    IF IsNone(meta.lesson_number)
    THEN [label |-> meta.course_title, link |-> None]
    ELSE [label |-> meta.course_title \o " - Lesson " \o
                    ToString(meta.lesson_number.some),
          link |-> GetLessonLink(meta.course_title, meta.lesson_number.some)]

\* the text of the documents found: a header with the label, then the document
FormatResults(results) ==
    [i \in 1..(2 * Len(results.documents)) |->
        IF i % 2 = 1
        THEN "[" \o SourceRecord(results.metadata[(i + 1) \div 2]).label \o "]"
        ELSE results.documents[i \div 2]]

\* a bug: nothing found leaves a placeholder among the sources
SearchExecute_EmptyLeavesSource(results) ==
    IF ~IsNone(results.error)
    THEN [result |-> Return(<< results.error.some >>), sources |-> << >>]
    ELSE IF Len(results.documents) = 0
    THEN [result |-> Return(<< "No relevant content found", "." >>),
          sources |-> << [label |-> "No relevant content found",
                          link |-> None] >>]
    ELSE [result |-> Return(FormatResults(results)),
          sources |-> [i \in 1..Len(results.metadata) |->
                          SourceRecord(results.metadata[i])]]

\* a bug: the error of the backend raised
SearchExecute_RaisesError(results) ==
    IF ~IsNone(results.error)
    THEN [result |-> Raise(results.error.some), sources |-> << >>]
    ELSE IF Len(results.documents) = 0
    THEN [result |-> Return(<< "No relevant content found", "." >>),
          sources |-> << >>]
    ELSE [result |-> Return(FormatResults(results)),
          sources |-> [i \in 1..Len(results.metadata) |->
                          SourceRecord(results.metadata[i])]]

\* CourseSearchTool.execute on what store.search answered: how it ends, and
\* the last_sources it leaves
SearchExecute(results) ==
    IF ~IsNone(results.error)
    THEN [result |-> Return(<< results.error.some >>), sources |-> << >>]
    ELSE IF Len(results.documents) = 0
    THEN [result |-> Return(<< "No relevant content found", "." >>),
          sources |-> << >>]
    ELSE [result |-> Return(FormatResults(results)),
          sources |-> [i \in 1..Len(results.metadata) |->
                          SourceRecord(results.metadata[i])]]

\* the dispatch of the name reaches a tool that searches
Searches(regd, tool_name) ==
    /\ tool_name \in RegisteredNames(regd)
    /\ regd[IndexOf(regd, tool_name)].tool \in SourceTools

\* a bug: the lookup of a name that is not registered raises
Dispatch_UnknownRaises(regd, sources, tool_name, results) ==
    IF tool_name \notin RegisteredNames(regd)
    THEN [sources |-> sources, result |-> Raise("KeyError")]
    ELSE LET tool == regd[IndexOf(regd, tool_name)].tool
         IN  IF tool \in SourceTools
             THEN [sources |->
                      [sources EXCEPT ![tool] = SearchExecute(results).sources],
                   result |-> SearchExecute(results).result]
             ELSE [sources |-> sources, result |-> Return(ToolText(tool))]

\* execute_tool(tool_name, **kwargs): the sources after it, and how it ends;
\* results is what store.search answers the tool
Dispatch(regd, sources, tool_name, results) ==
    IF tool_name \notin RegisteredNames(regd)
    THEN [sources |-> sources, result |-> Return(NotFoundText(tool_name))]
    ELSE LET tool == regd[IndexOf(regd, tool_name)].tool
         IN  IF tool \in SourceTools
             THEN [sources |->
                      [sources EXCEPT ![tool] = SearchExecute(results).sources],
                   result |-> SearchExecute(results).result]
             ELSE [sources |-> sources, result |-> Return(ToolText(tool))]

\* a bug: no sources are handed out
Collect_Nothing(regd, sources) == << >>

\* a bug: the sources of the first tool that has some
Collect_FirstOnly(regd, sources) ==
    LET holders == { i \in 1..Len(regd) :
                        /\ regd[i].tool \in SourceTools
                        /\ Len(sources[regd[i].tool]) > 0 }
    IN  IF holders = {} THEN << >>
        ELSE sources[regd[CHOOSE i \in holders :
                              \A j \in holders : i <= j].tool]

\* get_last_sources(): the sources of the registered tools, in the order of
\* their registration
RECURSIVE Collect(_, _)
Collect(regd, sources) ==
    IF Len(regd) = 0 THEN << >>
    ELSE (IF Head(regd).tool \in SourceTools
          THEN sources[Head(regd).tool] ELSE << >>) \o
         Collect(Tail(regd), sources)

----------------------------------------------------------------------------
(* Steps *)

\* the threads that call RAGSystem.query
Threads == {1, 2}

GeneratorInit ==
    /\ base_params = [model |-> MODEL, temperature |-> 0, max_tokens |-> 800]
    /\ pc = "idle"
    /\ query = "q"
    /\ conversation_history = None
    /\ tools = None
    /\ tool_manager = None
    /\ api_params = base_params
    /\ messages = << >>
    /\ current_response = NoResponse
    /\ round_count = 0
    /\ block_index = 0
    /\ tool_results = << >>
    /\ effects = << >>
    /\ responses = << >>
    /\ tool_outcomes = << >>
    /\ outcome = NoOutcome

ManagerInit ==
    /\ last_sources = [t \in SourceTools |-> << >>]
    /\ manager_call = NoCall
    /\ manager_result = NoOutcome

QueryInit ==
    /\ rag_pc = [q \in Threads |-> "idle"]
    /\ query_id = [q \in Threads |-> 0]
    /\ queries_started = 0
    /\ dispatches = [q \in Threads |-> 0]
    /\ collected = [q \in Threads |-> None]
    /\ collected_from = [q \in Threads |-> {}]
    /\ source_owner = [t \in SourceTools |-> 0]
    /\ produced = [q \in Threads |-> FALSE]
    /\ reset_calls = [q \in Threads |-> 0]
    /\ concurrent = [q \in Threads |-> FALSE]
    /\ stale_start = [q \in Threads |-> FALSE]

NoRequest == [query |-> "", session_id |-> None]
NoApiResponse == [status_code |-> 0]

ApiInit ==
    /\ api_request = NoRequest
    /\ api_response = NoApiResponse
    /\ create_session_calls = 0
    /\ rag_query_args = None
    /\ requests_served = 0

\* a thread that has not called generate_response
NoCallYet ==
    [pc |-> "idle", query |-> "", conversation_history |-> None,
     tools |-> None, tool_manager |-> None, api_params |-> << >>,
     messages |-> << >>, current_response |-> NoResponse, round_count |-> 0,
     block_index |-> 0, tool_results |-> << >>, effects |-> << >>,
     responses |-> << >>, tool_outcomes |-> << >>, outcome |-> NoOutcome]

CallsInit == calls = [t \in Threads |-> NoCallYet]

Init ==
    /\ GeneratorInit
    /\ registered_tools = << >>
    /\ ManagerInit
    /\ QueryInit
    /\ ApiInit
    /\ CallsInit

\* generate_response up to its call of client.messages.create
GenerateResponse(q, history, tls, tm) ==
    /\ pc \in {"idle", "returned", "raised"}
    /\ query' = q
    /\ conversation_history' = history
    /\ tools' = tls
    /\ tool_manager' = tm
    /\ api_params' = ApiParams(base_params, q, history, tls)
    /\ effects' = << CreateCall(api_params') >>
    /\ responses' = << >>
    /\ tool_outcomes' = << >>
    /\ messages' = << >>
    /\ current_response' = NoResponse
    /\ round_count' = 0
    /\ block_index' = 0
    /\ tool_results' = << >>
    /\ outcome' = NoOutcome
    /\ pc' = "create_first"
    /\ UNCHANGED base_params
    /\ UNCHANGED << registry_vars, query_vars, api_vars, call_vars >>

\* return current_response.content[0].text (or response.content[0].text)
ReturnText(resp) ==
    /\ outcome' = FirstText(resp.content)
    /\ pc' = IF outcome'.kind = "return" THEN "returned" ELSE "raised"

\* a bug: the text returned right after the final round, without the
\* completion-engine call that follows it
RunRound_ReturnsAfterFinalRound(msgs, results, rc, i) ==
    LET content == current_response'.content
        j == NextToolUse(content, i)
    IN  /\ round_count' = rc
        /\ block_index' = j
        /\ tool_results' = results
        /\ IF j <= Len(content)
           THEN /\ messages' = msgs
                /\ effects' = Append(effects, ExecuteCall(content[j]))
                /\ pc' = "execute_tool"
                /\ outcome' = NoOutcome
           ELSE IF IsFinalRound(rc)
           THEN /\ messages' = AppendToolResults(msgs, results)
                /\ effects' = effects
                /\ outcome' = FirstText(content)
                /\ pc' = IF outcome'.kind = "return" THEN "returned"
                         ELSE "raised"
           ELSE /\ messages' = AppendToolResults(msgs, results)
                /\ effects' = Append(effects,
                      CreateCall(NextParams(base_params, messages',
                                            api_params.system,
                                            GetTools(api_params), rc)))
                /\ pc' = "create_next"
                /\ outcome' = NoOutcome

\* One round from the dispatch of the block at position i on: either the
\* call of execute_tool for it, or, with no tool_use block left, the rest of
\* the round up to the next call of client.messages.create.
RunRound(msgs, results, rc, i) ==
    LET content == current_response'.content
        j == NextToolUse(content, i)
    IN  /\ round_count' = rc
        /\ block_index' = j
        /\ IF j <= Len(content)
           THEN /\ messages' = msgs
                /\ tool_results' = results
                /\ effects' = Append(effects, ExecuteCall(content[j]))
                /\ pc' = "execute_tool"
           ELSE /\ messages' = AppendToolResults(msgs, results)
                /\ tool_results' = results
                /\ effects' = Append(effects,
                      CreateCall(NextParams(base_params, messages',
                                            api_params.system,
                                            GetTools(api_params), rc)))
                /\ pc' = "create_next"
        /\ outcome' = NoOutcome

\* the first client.messages.create returns resp
FirstCreateReturns(resp) ==
    /\ pc = "create_first"
    /\ responses' = Append(responses, resp)
    /\ current_response' = resp
    /\ IF EntersToolLoop(resp, tool_manager)
       THEN RunRound(Append(api_params.messages, AssistantMessage(resp)),
                     << >>, 0, 1)
       ELSE /\ ReturnText(resp)
            /\ UNCHANGED << messages, round_count, block_index, tool_results,
                            effects >>
    /\ UNCHANGED << base_params, query, conversation_history, tools,
                    tool_manager, api_params, tool_outcomes >>
    /\ UNCHANGED << registry_vars, query_vars, api_vars, call_vars >>

\* client.messages.create inside the loop returns resp
NextCreateReturns(resp) ==
    /\ pc = "create_next"
    /\ responses' = Append(responses, resp)
    /\ current_response' = resp
    /\ IF LoopContinues(resp, round_count)
       THEN RunRound(Append(messages, AssistantMessage(resp)), << >>,
                     round_count + 1, 1)
       ELSE /\ ReturnText(resp)
            /\ UNCHANGED << messages, round_count, block_index, tool_results,
                            effects >>
    /\ UNCHANGED << base_params, query, conversation_history, tools,
                    tool_manager, api_params, tool_outcomes >>
    /\ UNCHANGED << registry_vars, query_vars, api_vars, call_vars >>

\* a bug: the failure caught and turned into an answer
CreateRaises_Swallowed(e) ==
    /\ pc \in {"create_first", "create_next"}
    /\ responses' = Append(responses, Raise(e))
    /\ outcome' = Return(e)
    /\ pc' = "returned"
    /\ UNCHANGED << base_params, query, conversation_history, tools,
                    tool_manager, api_params, messages, current_response,
                    round_count, block_index, tool_results, effects,
                    tool_outcomes >>
    /\ UNCHANGED << registry_vars, query_vars, api_vars, call_vars >>

\* client.messages.create raises: nothing catches it
CreateRaises(e) ==
    /\ pc \in {"create_first", "create_next"}
    /\ responses' = Append(responses, Raise(e))
    /\ outcome' = Raise(e)
    /\ pc' = "raised"
    /\ UNCHANGED << base_params, query, conversation_history, tools,
                    tool_manager, api_params, messages, current_response,
                    round_count, block_index, tool_results, effects,
                    tool_outcomes >>
    /\ UNCHANGED << registry_vars, query_vars, api_vars, call_vars >>

\* tool_manager.execute_tool returns text
ExecuteToolReturns(text) ==
    /\ pc = "execute_tool"
    /\ current_response' = current_response
    /\ tool_outcomes' = Append(tool_outcomes, Return(text))
    /\ RunRound(messages,
                AddToolResult(tool_results,
                              current_response.content[block_index], text),
                round_count, block_index + 1)
    /\ UNCHANGED << base_params, query, conversation_history, tools,
                    tool_manager, api_params, responses >>
    /\ UNCHANGED << registry_vars, query_vars, api_vars, call_vars >>

\* a bug: a failed dispatch tried again
ExecuteToolRaises_Retries(e) ==
    /\ pc = "execute_tool"
    /\ tool_outcomes' = Append(tool_outcomes, Raise(e))
    /\ effects' = Append(effects,
                         ExecuteCall(current_response.content[block_index]))
    /\ UNCHANGED << base_params, pc, query, conversation_history, tools,
                    tool_manager, api_params, messages, current_response,
                    round_count, block_index, tool_results, responses,
                    outcome >>
    /\ UNCHANGED << registry_vars, query_vars, api_vars, call_vars >>

\* a bug: no try/except around execute_tool
ExecuteToolRaises_Propagates(e) ==
    /\ pc = "execute_tool"
    /\ tool_outcomes' = Append(tool_outcomes, Raise(e))
    /\ outcome' = Raise(e)
    /\ pc' = "raised"
    /\ UNCHANGED << base_params, query, conversation_history, tools,
                    tool_manager, api_params, messages, current_response,
                    round_count, block_index, tool_results, effects,
                    responses >>
    /\ UNCHANGED << registry_vars, query_vars, api_vars, call_vars >>

\* tool_manager.execute_tool raises Exception(e)
ExecuteToolRaises(e) ==
    /\ pc = "execute_tool"
    /\ current_response' = current_response
    /\ tool_outcomes' = Append(tool_outcomes, Raise(e))
    /\ RunRound(messages,
                AddToolResult(tool_results,
                              current_response.content[block_index],
                              ToolErrorText(e)),
                round_count, block_index + 1)
    /\ UNCHANGED << base_params, query, conversation_history, tools,
                    tool_manager, api_params, responses >>
    /\ UNCHANGED << registry_vars, query_vars, api_vars, call_vars >>

Next ==
    \/ \E q \in Queries, h \in Histories, tls \in ToolLists, tm \in ToolManagers :
          GenerateResponse(q, h, tls, tm)
    \/ \E resp \in Responses(Len(responses) + 1) : FirstCreateReturns(resp)
    \/ \E resp \in Responses(Len(responses) + 1) : NextCreateReturns(resp)
    \/ \E e \in EngineErrors : CreateRaises(e)
    \/ \E text \in ToolTexts : ExecuteToolReturns(text)
    \/ \E e \in ToolErrors : ExecuteToolRaises(e)

Spec == Init /\ [][Next]_vars

\* each external call that was started returns or raises
ExternalCallEnds ==
    \/ \E resp \in Responses(Len(responses) + 1) : FirstCreateReturns(resp)
    \/ \E resp \in Responses(Len(responses) + 1) : NextCreateReturns(resp)
    \/ \E e \in EngineErrors : CreateRaises(e)
    \/ \E text \in ToolTexts : ExecuteToolReturns(text)
    \/ \E e \in ToolErrors : ExecuteToolRaises(e)

\* one call of generate_response, every external call of which ends
FirstCall ==
    /\ pc = "idle"
    /\ \E q \in Queries, h \in Histories, tls \in ToolLists, tm \in ToolManagers :
          GenerateResponse(q, h, tls, tm)

FairSpec == Init /\ [][FirstCall \/ ExternalCallEnds]_vars
                 /\ WF_vars(ExternalCallEnds)

----------------------------------------------------------------------------
(* Steps of the tool manager *)

\* tool_manager.register_tool(tool)
RegisterTool(tool) ==
    /\ manager_call' = RegisterToolCall(tool)
    /\ registered_tools' = Register(registered_tools, tool).tools
    /\ manager_result' = Register(registered_tools, tool).result
    /\ UNCHANGED last_sources
    /\ UNCHANGED << generator_vars, query_vars, api_vars, call_vars >>

\* tool_manager.execute_tool(tool_name, **kwargs)
ExecuteTool(tool_name, results) ==
    /\ Searches(registered_tools, tool_name) \/ results = EmptyResults
    /\ manager_call' = ExecuteToolCall(tool_name, results)
    /\ last_sources' =
          Dispatch(registered_tools, last_sources, tool_name, results).sources
    /\ manager_result' =
          Dispatch(registered_tools, last_sources, tool_name, results).result
    /\ UNCHANGED registered_tools
    /\ UNCHANGED << generator_vars, query_vars, api_vars, call_vars >>

\* tool_manager.get_last_sources()
GetLastSources ==
    /\ manager_call' = GetLastSourcesCall
    /\ manager_result' = Return(Collect(registered_tools, last_sources))
    /\ UNCHANGED << registered_tools, last_sources >>
    /\ UNCHANGED << generator_vars, query_vars, api_vars, call_vars >>

\* tool_manager.reset_sources()
ResetSources ==
    /\ manager_call' = ResetSourcesCall
    /\ last_sources' = Reset(registered_tools, last_sources)
    /\ manager_result' = Return(None)
    /\ UNCHANGED registered_tools
    /\ UNCHANGED << generator_vars, query_vars, api_vars, call_vars >>

RegistryNext ==
    \/ \E tool \in ToolObjects : RegisterTool(tool)
    \/ \E tool_name \in ToolNames, results \in BackendResults :
          ExecuteTool(tool_name, results)
    \/ GetLastSources
    \/ ResetSources

RegistrySpec == Init /\ [][RegistryNext]_vars

----------------------------------------------------------------------------
(* RAGSystem.query on the shared tool manager *)

\* the tools RAGSystem registers when it is built
RegisteredAtStartup ==
    Register(Register(<< >>, "search_tool").tools, "outline_tool").tools

RagSystemInit ==
    /\ GeneratorInit
    /\ registered_tools = RegisteredAtStartup
    /\ ManagerInit
    /\ QueryInit
    /\ ApiInit
    /\ CallsInit

\* what store.search answers a query's search
QueryResults == { r \in BackendResults : Len(r.documents) <= 1 }

\* the thread's query is under way
Active(q) == rag_pc[q] \in {"generating", "collect", "reset"}

\* query(query, session_id) up to its call of generate_response
RagQuery(q) ==
    /\ ~Active(q)
    /\ queries_started < MaxQueries
    /\ queries_started' = queries_started + 1
    /\ query_id' = [query_id EXCEPT ![q] = queries_started + 1]
    /\ rag_pc' = [rag_pc EXCEPT ![q] = "generating"]
    /\ dispatches' = [dispatches EXCEPT ![q] = 0]
    /\ collected' = [collected EXCEPT ![q] = None]
    /\ collected_from' = [collected_from EXCEPT ![q] = {}]
    /\ produced' = [produced EXCEPT ![q] = FALSE]
    /\ reset_calls' = [reset_calls EXCEPT ![q] = 0]
    /\ concurrent' =
          [r \in Threads |->
              IF r = q THEN \E o \in Threads \ {q} : Active(o)
              ELSE concurrent[r] \/ Active(r)]
    /\ stale_start' =
          [stale_start EXCEPT
              ![q] = \E t \in SourceTools : last_sources[t] # << >>]
    /\ UNCHANGED << source_owner, generator_vars, registry_vars, api_vars, call_vars >>

\* generate_response dispatches a tool: tool_manager.execute_tool
GenerateDispatches(q, tool_name, results) ==
    /\ rag_pc[q] = "generating"
    /\ dispatches[q] < MaxDispatches
    /\ Searches(registered_tools, tool_name) \/ results = EmptyResults
    /\ dispatches' = [dispatches EXCEPT ![q] = @ + 1]
    /\ last_sources' =
          Dispatch(registered_tools, last_sources, tool_name, results).sources
    /\ IF Searches(registered_tools, tool_name)
       THEN LET tool ==
                    registered_tools[IndexOf(registered_tools, tool_name)].tool
            IN  /\ source_owner' =
                      [source_owner EXCEPT
                          ![tool] = IF last_sources'[tool] = << >>
                                    THEN 0 ELSE query_id[q]]
                /\ produced' =
                      [produced EXCEPT ![q] = last_sources'[tool] # << >>]
       ELSE UNCHANGED << source_owner, produced >>
    /\ UNCHANGED << rag_pc, query_id, queries_started, collected,
                    collected_from, reset_calls, concurrent, stale_start,
                    registered_tools, manager_call, manager_result,
                    generator_vars, api_vars, call_vars >>

\* generate_response returns its text
GenerateReturns(q) ==
    /\ rag_pc[q] = "generating"
    /\ rag_pc' = [rag_pc EXCEPT ![q] = "collect"]
    /\ UNCHANGED << query_id, queries_started, dispatches, collected,
                    collected_from, source_owner, produced, reset_calls,
                    concurrent, stale_start, generator_vars, registry_vars,
                    api_vars, call_vars >>

\* generate_response raises, and query with it
GenerateRaises(q) ==
    /\ rag_pc[q] = "generating"
    /\ rag_pc' = [rag_pc EXCEPT ![q] = "failed"]
    /\ UNCHANGED << query_id, queries_started, dispatches, collected,
                    collected_from, source_owner, produced, reset_calls,
                    concurrent, stale_start, generator_vars, registry_vars,
                    api_vars, call_vars >>

\* sources = self.tool_manager.get_last_sources()
QueryCollects(q) ==
    /\ rag_pc[q] = "collect"
    /\ rag_pc' = [rag_pc EXCEPT ![q] = "reset"]
    /\ collected' =
          [collected EXCEPT ![q] = Some(Collect(registered_tools, last_sources))]
    /\ collected_from' =
          [collected_from EXCEPT
              ![q] = { source_owner[t] :
                         t \in { u \in RegisteredTools(registered_tools)
                                         \cap SourceTools :
                                    last_sources[u] # << >> } }]
    /\ UNCHANGED << query_id, queries_started, dispatches, source_owner,
                    produced, reset_calls, concurrent, stale_start,
                    generator_vars, registry_vars, api_vars, call_vars >>

\* self.tool_manager.reset_sources(), and the rest of query
QueryResets(q) ==
    /\ rag_pc[q] = "reset"
    /\ rag_pc' = [rag_pc EXCEPT ![q] = "done"]
    /\ last_sources' = Reset(registered_tools, last_sources)
    /\ source_owner' =
          [t \in SourceTools |->
              IF last_sources'[t] = << >> THEN 0 ELSE source_owner[t]]
    /\ reset_calls' = [reset_calls EXCEPT ![q] = @ + 1]
    /\ UNCHANGED << query_id, queries_started, dispatches, collected,
                    collected_from, produced, concurrent, stale_start,
                    registered_tools, manager_call, manager_result,
                    generator_vars, api_vars, call_vars >>

\* what a query does once it has begun
QuerySteps(q) ==
    \/ \E tool_name \in ToolNames, results \in QueryResults :
          GenerateDispatches(q, tool_name, results)
    \/ GenerateReturns(q)
    \/ GenerateRaises(q)
    \/ QueryCollects(q)
    \/ QueryResets(q)

\* a query begins while no other is under way
RagQueryAlone(q) ==
    /\ \A o \in Threads : ~Active(o)
    /\ RagQuery(q)

\* queries one after the other
QueryNext == \E q \in Threads : RagQueryAlone(q) \/ QuerySteps(q)

QuerySpec == RagSystemInit /\ [][QueryNext]_vars

\* queries of two threads, in any interleaving
ConcurrentNext == \E q \in Threads : RagQuery(q) \/ QuerySteps(q)

ConcurrentSpec == RagSystemInit /\ [][ConcurrentNext]_vars

----------------------------------------------------------------------------
(* The query endpoint: query_documents of tests/conftest.py *)

Requests ==
    [query : {"hello", "What is Python?"},
     session_id : {None, Some(""), Some("my-session-123")}]

\* what rag_system.query returns or raises
RagOutcomes ==
    { Return([answer |-> "Mock answer",
              sources |-> << "source1", "source2" >>]),
      Raise("rag failure") }

\* a bug: "if session_id is None"
NeedsSession_IsNone(request) == IsNone(request.session_id)

\* if not session_id
NeedsSession(request) == ~Truthy(request.session_id)

\* session_manager.create_session()
CreateSession == "session_test"

\* POST /api/query
QueryDocuments(request, rag_outcome) ==
    /\ requests_served < MaxRequests
    /\ requests_served' = requests_served + 1
    /\ api_request' = request
    /\ create_session_calls' =
          IF NeedsSession(request) THEN create_session_calls + 1
          ELSE create_session_calls
    /\ rag_query_args' =
          Some([query |-> request.query,
                session_id |-> IF NeedsSession(request) THEN CreateSession
                               ELSE request.session_id.some])
    /\ api_response' =
          IF rag_outcome.kind = "return"
          THEN [status_code |-> 200,
                answer |-> rag_outcome.value.answer,
                sources |-> rag_outcome.value.sources,
                session_id |-> rag_query_args'.some.session_id]
          ELSE [status_code |-> 500, detail |-> rag_outcome.exc]
    /\ UNCHANGED << generator_vars, registry_vars, query_vars, call_vars >>

ApiNext ==
    \E request \in Requests, rag_outcome \in RagOutcomes :
        QueryDocuments(request, rag_outcome)

ApiSpec == Init /\ [][ApiNext]_vars

----------------------------------------------------------------------------
(* Two threads calling generate_response on the one AIGenerator object *)

\* the arguments of the thread's call
QueryOf(t) == "q" \o ToString(t)
HistoryOf(t) == IF t = 1 THEN None ELSE Some("User: hi")
ThreadTools == Some(<< [name |-> "search_course_content"] >>)
ThreadManager == Some("tool_manager")

\* the completion engine's answer to the n-th call of the thread's query
ThreadResponses(t, n) ==
    LET tag == ToString(t) \o "_" \o ToString(n)
    IN  [content :
            { << TextBlock("answer " \o tag) >>,
              << ToolUseBlock("toolu_" \o tag, "search_course_content",
                              [query |-> QueryOf(t)]) >> },
         stop_reason : StopReasons]

\* what execute_tool returns or raises on the thread's dispatch
ThreadToolOutcomes(t) ==
    { Return("tool result for " \o QueryOf(t)),
      Raise("DB connection failed for " \o QueryOf(t)) }

\* a bug: api_params = self.base_params, updated in place
SelfBaseParams_InPlace(bp, params) == params

\* self.base_params after {**self.base_params, ...} built params: the
\* unpacking copies, the attribute is left as it was
SelfBaseParams(bp, params) == bp

\* generate_response up to its call of client.messages.create
StartCall(bp, q, history, tls, tm) ==
    LET params == ApiParams(bp, q, history, tls)
    IN  [pc |-> "create_first", query |-> q,
         conversation_history |-> history, tools |-> tls,
         tool_manager |-> tm, api_params |-> params,
         messages |-> << >>, current_response |-> NoResponse,
         round_count |-> 0, block_index |-> 0, tool_results |-> << >>,
         effects |-> << CreateCall(params) >>, responses |-> << >>,
         tool_outcomes |-> << >>, outcome |-> NoOutcome]

\* return current_response.content[0].text
CallReturnsText(c) ==
    LET out == FirstText(c.current_response.content)
    IN  [c EXCEPT !.outcome = out,
                  !.pc = IF out.kind = "return" THEN "returned" ELSE "raised"]

\* one round of the call from the block at position i on, as RunRound
CallRunsRound(bp, c, msgs, results, rc, i) ==
    LET content == c.current_response.content
        j == NextToolUse(content, i)
        sent == AppendToolResults(msgs, results)
    IN  IF j <= Len(content)
        THEN [c EXCEPT !.round_count = rc, !.block_index = j,
                       !.messages = msgs, !.tool_results = results,
                       !.effects = Append(@, ExecuteCall(content[j])),
                       !.pc = "execute_tool"]
        ELSE [c EXCEPT !.round_count = rc, !.block_index = j,
                       !.messages = sent, !.tool_results = results,
                       !.effects = Append(@,
                           CreateCall(NextParams(bp, sent,
                                                 c.api_params.system,
                                                 GetTools(c.api_params),
                                                 rc))),
                       !.pc = "create_next"]

\* the keyword arguments of the call of the engine the thread made last
LastKwargs(c) == c.effects[Len(c.effects)].kwargs

\* the thread calls generate_response
ThreadGenerateResponse(t) ==
    /\ calls[t].pc = "idle"
    /\ calls' = [calls EXCEPT
                    ![t] = StartCall(base_params, QueryOf(t), HistoryOf(t),
                                     ThreadTools, ThreadManager)]
    /\ base_params' = SelfBaseParams(base_params, calls'[t].api_params)
    /\ UNCHANGED << call_locals, registry_vars, query_vars, api_vars >>

\* client.messages.create returns resp to the thread
ThreadCreateReturns(t, resp) ==
    LET c == calls[t]
        got == [c EXCEPT !.responses = Append(@, resp),
                         !.current_response = resp]
        after ==
            IF c.pc = "create_first"
            THEN IF EntersToolLoop(resp, c.tool_manager)
                 THEN CallRunsRound(base_params, got,
                                    Append(c.api_params.messages,
                                           AssistantMessage(resp)),
                                    << >>, 0, 1)
                 ELSE CallReturnsText(got)
            ELSE IF LoopContinues(resp, c.round_count)
                 THEN CallRunsRound(base_params, got,
                                    Append(c.messages, AssistantMessage(resp)),
                                    << >>, c.round_count + 1, 1)
                 ELSE CallReturnsText(got)
    IN  /\ c.pc \in {"create_first", "create_next"}
        /\ calls' = [calls EXCEPT ![t] = after]
        /\ base_params' =
              IF after.pc = "create_next"
              THEN SelfBaseParams(base_params, LastKwargs(after))
              ELSE base_params
        /\ UNCHANGED << call_locals, registry_vars, query_vars, api_vars >>

\* client.messages.create raises in the thread: nothing catches it
ThreadCreateRaises(t, e) ==
    /\ calls[t].pc \in {"create_first", "create_next"}
    /\ calls' = [calls EXCEPT ![t].responses = Append(@, Raise(e)),
                              ![t].outcome = Raise(e),
                              ![t].pc = "raised"]
    /\ UNCHANGED << generator_vars, registry_vars, query_vars, api_vars >>

\* tool_manager.execute_tool returns or raises in the thread
ThreadExecuteToolEnds(t, result) ==
    LET c == calls[t]
        text == IF result.kind = "return" THEN result.value
                ELSE ToolErrorText(result.exc)
        got == [c EXCEPT !.tool_outcomes = Append(@, result)]
        after ==
            CallRunsRound(base_params, got, c.messages,
                          AddToolResult(c.tool_results,
                                        c.current_response.content[c.block_index],
                                        text),
                          c.round_count, c.block_index + 1)
    IN  /\ c.pc = "execute_tool"
        /\ calls' = [calls EXCEPT ![t] = after]
        /\ base_params' =
              IF after.pc = "create_next"
              THEN SelfBaseParams(base_params, LastKwargs(after))
              ELSE base_params
        /\ UNCHANGED << call_locals, registry_vars, query_vars, api_vars >>

\* the calls of the two threads, in any interleaving
ThreadsNext ==
    \E t \in Threads :
        \/ ThreadGenerateResponse(t)
        \/ \E resp \in ThreadResponses(t, Len(calls[t].responses) + 1) :
              ThreadCreateReturns(t, resp)
        \/ \E e \in EngineErrors : ThreadCreateRaises(t, e)
        \/ \E result \in ThreadToolOutcomes(t) : ThreadExecuteToolEnds(t, result)

ThreadsSpec == Init /\ [][ThreadsNext]_vars

----------------------------------------------------------------------------
(* What the properties speak about *)

\* the calls of the completion engine, and of the tool manager, so far
Creates == SelectSeq(effects, LAMBDA c : c.kind = "create")
Executes == SelectSeq(effects, LAMBDA c : c.kind = "execute_tool")

Terminated == pc \in {"returned", "raised"}

\* an answer of the completion engine, as opposed to an exception
IsResponse(r) == "stop_reason" \in DOMAIN r
RequestsTools(r) == IsResponse(r) /\ r.stop_reason = "tool_use"
TextFirst(r) == Len(r.content) > 0 /\ r.content[1].type = "text"

\* the tool invocation requests of a response, in order
ToolUses(r) == SelectSeq(r.content, LAMBDA b : b.type = "tool_use")

OffersTools(call) ==
    "tools" \in DOMAIN call.kwargs \/ "tool_choice" \in DOMAIN call.kwargs

\* the dispatch rounds begun so far: one assistant message each
DispatchedRounds ==
    Len(SelectSeq(messages, LAMBDA m : m.role = "assistant"))

\* the tool invocation requests of the first k responses, in order
RECURSIVE RequestsUpTo(_)
RequestsUpTo(k) ==
    IF k = 0 THEN << >> ELSE RequestsUpTo(k - 1) \o ToolUses(responses[k])

\* the tool results of the transcript and of the round under way, in order
RECURSIVE ResultsIn(_, _)
ResultsIn(msgs, k) ==
    IF k = 0 THEN << >>
    ELSE ResultsIn(msgs, k - 1) \o
         (IF k > 1 /\ msgs[k].role = "user" THEN msgs[k].content ELSE << >>)

AllToolResults ==
    ResultsIn(messages, Len(messages)) \o
    (IF pc = "execute_tool" THEN tool_results ELSE << >>)

----------------------------------------------------------------------------
(* Properties *)

C2_SynthesisCallWithoutTools ==
    Len(Creates) > MAX_TOOL_ROUNDS =>
        /\ "tools" \notin DOMAIN Creates[MAX_TOOL_ROUNDS + 1].kwargs
        /\ "tool_choice" \notin DOMAIN Creates[MAX_TOOL_ROUNDS + 1].kwargs

C2_Witness ==
    /\ Len(Creates) = MAX_TOOL_ROUNDS + 1
    /\ Truthy(tools)
    /\ OffersTools(Creates[MAX_TOOL_ROUNDS])

\* C3: when the first answer does not request tools, generate_response has
\* made exactly one completion-engine call and no tool-manager call, and has
\* ended; it returned the text of that answer's first block (a text block).
C3_DirectAnswer ==
    (Len(responses) >= 1 /\ IsResponse(responses[1])
        /\ ~RequestsTools(responses[1])) =>
        /\ Terminated
        /\ Len(responses) = 1
        /\ Len(Creates) = 1
        /\ Len(Executes) = 0
        /\ TextFirst(responses[1]) =>
              outcome = Return(responses[1].content[1].text)

C3_Witness ==
    /\ pc = "returned"
    /\ Len(responses) = 1
    /\ ~RequestsTools(responses[1])
    /\ ~IsNone(tool_manager)
    /\ Truthy(tools)
    /\ Len(ToolUses(responses[1])) > 0

\* C4: when, after k dispatch rounds (1 <= k < MAX_TOOL_ROUNDS), the next
\* answer does not request tools, the loop stops there: k + 1
\* completion-engine calls in all, no tool dispatched beyond those of the k
\* rounds, and the text of that answer's first block (a text block) returned.
C4_EarlyExit ==
    \A k \in 1..(MAX_TOOL_ROUNDS - 1) :
        (DispatchedRounds >= k /\ Len(responses) > k
            /\ IsResponse(responses[k + 1])
            /\ ~RequestsTools(responses[k + 1])) =>
            /\ Terminated
            /\ DispatchedRounds = k
            /\ Len(responses) = k + 1
            /\ Len(Creates) = k + 1
            /\ Len(Executes) = Len(RequestsUpTo(k))
            /\ TextFirst(responses[k + 1]) =>
                  outcome = Return(responses[k + 1].content[1].text)

C4_Witness ==
    /\ pc = "returned"
    /\ DispatchedRounds = 1
    /\ Len(responses) = 2
    /\ ~RequestsTools(responses[2])
    /\ Len(Executes) = 1
    /\ TextFirst(responses[1])

\* C5: a tool invocation that raises aborts neither the round nor the query:
\* its request gets the tool result "Tool execution error: <detail>", the
\* other requests of the round are dispatched all the same, the next
\* completion-engine call is made, and generate_response never ends with the
\* tool's exception.
C5_ToolFailureContained ==
    /\ Len(AllToolResults) = Len(tool_outcomes)
    /\ \A i \in 1..Len(tool_outcomes) :
          tool_outcomes[i].kind = "raise" =>
              AllToolResults[i].content =
                  "Tool execution error: " \o tool_outcomes[i].exc
    /\ pc # "execute_tool" =>
          /\ Len(Executes) = Len(RequestsUpTo(DispatchedRounds))
          /\ Len(tool_outcomes) = Len(Executes)
          /\ DispatchedRounds > 0 => Len(Creates) = DispatchedRounds + 1
    /\ outcome.kind = "raise" => outcome.exc \notin ToolErrors

\* the first of two requests of a round raised; the second was dispatched
\* and the next completion-engine call made
C5_Witness ==
    /\ pc = "create_next"
    /\ DispatchedRounds = 1
    /\ Len(tool_outcomes) = 2
    /\ tool_outcomes[1].kind = "raise"
    /\ tool_outcomes[2].kind = "return"

\* the transcript sent on the c-th completion-engine call
Transcript(c) == Creates[c].kwargs.messages

RolesOf(msgs) == [i \in 1..Len(msgs) |-> msgs[i].role]

\* C6: in every dispatch round each tool invocation request of the answer
\* gets exactly one tool result with the request's id, the results stand in
\* the order of the requests, and all of them are in the transcript of the
\* completion-engine call that follows the round.
C6_OneResultPerRequest ==
    \A r \in 1..(Len(Creates) - 1) :
        LET requests == RequestsUpTo(r)
            results == ResultsIn(Transcript(r + 1), Len(Transcript(r + 1)))
        IN  /\ Len(results) = Len(requests)
            /\ \A i \in 1..Len(requests) :
                  /\ results[i].type = "tool_result"
                  /\ results[i].tool_use_id = requests[i].id
                  /\ Cardinality({ j \in 1..Len(results) :
                        results[j].tool_use_id = requests[i].id }) = 1

\* two requests in the first round, and a second round
C6_Witness ==
    /\ Len(Creates) = MAX_TOOL_ROUNDS + 1
    /\ Len(ToolUses(responses[1])) = 2
    /\ Len(ToolUses(responses[2])) >= 1

\* the roles of the transcript after k rounds: the query, then per round the
\* assistant message and, when the answer held a request, the tool results
RECURSIVE ExpectedRoles(_)
ExpectedRoles(k) ==
    IF k = 0 THEN << "user" >>
    ELSE ExpectedRoles(k - 1) \o
         (IF Len(ToolUses(responses[k])) > 0
          THEN << "assistant", "user" >> ELSE << "assistant" >>)

\* C7 as claimed: the transcript sent on the call that follows k rounds has
\* exactly 1 + 2k messages, roles alternating from user, the last one user.
C7_TranscriptShape_Claimed ==
    \A c \in 1..Len(Creates) :
        LET m == Transcript(c)
        IN  /\ Len(m) = 1 + 2 * (c - 1)
            /\ \A i \in 1..Len(m) :
                  m[i].role = IF i % 2 = 1 THEN "user" ELSE "assistant"
            /\ m[Len(m)].role = "user"

\* C7, amended: a round appends one assistant message, and after it one
\* tool-result (user) message exactly when the answer held a tool invocation
\* request; when every round's answer held one, the transcript after k rounds
\* has 1 + 2k messages, roles alternating from user, the last one user.
C7_TranscriptShape ==
    \A c \in 1..Len(Creates) :
        LET m == Transcript(c)
        IN  /\ RolesOf(m) = ExpectedRoles(c - 1)
            /\ (\A r \in 1..(c - 1) : Len(ToolUses(responses[r])) > 0) =>
                  /\ Len(m) = 1 + 2 * (c - 1)
                  /\ \A i \in 1..Len(m) :
                        m[i].role = IF i % 2 = 1 THEN "user" ELSE "assistant"
                  /\ m[Len(m)].role = "user"

C7_Witness ==
    /\ Len(Creates) = MAX_TOOL_ROUNDS + 1
    /\ Len(Transcript(MAX_TOOL_ROUNDS + 1)) = 1 + 2 * MAX_TOOL_ROUNDS

\* C8: a completion-engine call that raises ends generate_response with that
\* exception: the failed call is the last external call of the query.
C8_EngineFailurePropagates ==
    \A i \in 1..Len(responses) :
        ~IsResponse(responses[i]) =>
            /\ i = Len(responses)
            /\ pc = "raised"
            /\ outcome = responses[i]
            /\ Len(Creates) = i
            /\ effects[Len(effects)].kind = "create"
            /\ Len(Executes) = Len(tool_outcomes)

\* the call made after a tool round failed
C8_Witness ==
    /\ Len(responses) = 2
    /\ ~IsResponse(responses[2])
    /\ Len(Executes) >= 1
    /\ outcome = Raise("API down")

\* C9: when the answer requests tools (and carries at least one block) and
\* no tool manager was given, generate_response dispatches nothing, makes no
\* second completion-engine call and returns, whatever the blocks are.
C9_DegradedModeReturns ==
    (Len(responses) >= 1 /\ RequestsTools(responses[1])
        /\ Len(responses[1].content) > 0 /\ IsNone(tool_manager)) =>
        /\ Len(Creates) = 1
        /\ Len(Executes) = 0
        /\ pc = "returned"
        /\ outcome.kind = "return"

LastCreate == Creates[Len(Creates)]

\* C10 as claimed: a call of generate_response that dispatched at least one
\* round made its last completion-engine call without tools.
C10_LastCallWithoutTools_Claimed ==
    (pc = "returned" /\ DispatchedRounds >= 1) => ~OffersTools(LastCreate)

\* C10, amended: after MAX_TOOL_ROUNDS dispatched rounds the last
\* completion-engine call carries no tools; after fewer rounds (early exit)
\* it carries them exactly when the caller gave a non-empty tool list.
C10_LastCallWithoutTools ==
    (Terminated /\ DispatchedRounds >= 1) =>
        /\ Len(Creates) = DispatchedRounds + 1
        /\ DispatchedRounds = MAX_TOOL_ROUNDS => ~OffersTools(LastCreate)
        /\ DispatchedRounds < MAX_TOOL_ROUNDS =>
              (OffersTools(LastCreate) <=> Truthy(tools))

C10_Witness ==
    /\ pc = "returned"
    /\ DispatchedRounds = 1
    /\ Len(Executes) >= 1
    /\ OffersTools(LastCreate)

\* C11: the round counter of a query stays within 0 .. MAX_TOOL_ROUNDS - 1,
\* is 0 in the first round and one less than the number of rounds begun
\* afterwards; so a query dispatches at most MAX_TOOL_ROUNDS rounds, whatever
\* earlier queries did and whether or not tools failed.
C11_RoundCounterBounded ==
    /\ round_count \in 0..(MAX_TOOL_ROUNDS - 1)
    /\ DispatchedRounds <= MAX_TOOL_ROUNDS
    /\ DispatchedRounds = 0 => round_count = 0
    /\ DispatchedRounds > 0 => round_count = DispatchedRounds - 1

\* the last permitted round, reached with a failed tool
C11_Witness ==
    /\ DispatchedRounds = MAX_TOOL_ROUNDS
    /\ round_count = MAX_TOOL_ROUNDS - 1
    /\ \E i \in 1..Len(tool_outcomes) : tool_outcomes[i].kind = "raise"
    /\ RequestsTools(responses[Len(responses)])

IsPrefix(s, t) == Len(s) <= Len(t) /\ SubSeq(t, 1, Len(s)) = s

\* C12: the transcript only grows within a query: the transcript sent on a
\* completion-engine call is a proper prefix of the one sent on the next
\* call, and of the transcript being built.
C12_TranscriptAppendOnly ==
    /\ \A c \in 1..(Len(Creates) - 1) :
          /\ IsPrefix(Transcript(c), Transcript(c + 1))
          /\ Len(Transcript(c)) < Len(Transcript(c + 1))
    /\ (Len(Creates) >= 1 /\ DispatchedRounds > 0) =>
          IsPrefix(Transcript(Len(Creates)), messages)

C12_Witness ==
    /\ Len(Creates) = MAX_TOOL_ROUNDS + 1
    /\ Len(Transcript(2)) = 3
    /\ Len(Transcript(3)) = 5

\* the ids of the tool invocation requests of an assistant message
RequestIds(msg) ==
    { msg.content[i].id :
        i \in { j \in 1..Len(msg.content) : msg.content[j].type = "tool_use" } }

\* every tool-result message of msgs stands right after the assistant message
\* that holds the requests of its results
ResultsFollowRequests(msgs) ==
    \A i \in 2..Len(msgs) :
        msgs[i].role = "user" =>
            /\ msgs[i - 1].role = "assistant"
            /\ \A j \in 1..Len(msgs[i].content) :
                  msgs[i].content[j].tool_use_id \in RequestIds(msgs[i - 1])

\* C13: while a tool is being executed the transcript already ends with the
\* assistant message that holds its request, and in every transcript a tool
\* result stands after the assistant message that requested it.
C13_AssistantMessageFirst ==
    /\ pc = "execute_tool" =>
          /\ messages[Len(messages)] = AssistantMessage(current_response)
          /\ current_response.content[block_index].type = "tool_use"
          /\ effects[Len(effects)] =
                ExecuteCall(current_response.content[block_index])
    /\ ResultsFollowRequests(messages)
    /\ \A c \in 1..Len(Creates) : ResultsFollowRequests(Transcript(c))

\* the second tool of the second round is being executed
C13_Witness ==
    /\ pc = "execute_tool"
    /\ DispatchedRounds = 2
    /\ Len(tool_results) = 1
    /\ Len(messages) = 4

\* C14: the first completion-engine call carries the tool definitions, with
\* tool_choice "auto", exactly when the caller gave a non-empty tool list;
\* otherwise it has neither key.
C14_FirstCallTools ==
    Len(Creates) >= 1 =>
        LET kw == Creates[1].kwargs
        IN  /\ "tools" \in DOMAIN kw <=> Truthy(tools)
            /\ "tool_choice" \in DOMAIN kw <=> Truthy(tools)
            /\ Truthy(tools) =>
                  /\ kw.tools = tools.some
                  /\ kw.tool_choice = [type |-> "auto"]

\* an empty tool list was given
C14_Witness ==
    /\ Len(Creates) >= 1
    /\ ~IsNone(tools)
    /\ ~Truthy(tools)
    /\ "tools" \notin DOMAIN Creates[1].kwargs

\* C15: the completion-engine call that follows round r carries the tool
\* definitions exactly when r < MAX_TOOL_ROUNDS and the caller gave a
\* non-empty tool list.
C15_ToolsAfterRound ==
    \A r \in 1..(Len(Creates) - 1) :
        LET kw == Creates[r + 1].kwargs
            offered == r < MAX_TOOL_ROUNDS /\ Truthy(tools)
        IN  /\ "tools" \in DOMAIN kw <=> offered
            /\ "tool_choice" \in DOMAIN kw <=> offered
            /\ offered => kw.tools = tools.some

C15_Witness ==
    /\ Len(Creates) = MAX_TOOL_ROUNDS + 1
    /\ Truthy(tools)
    /\ "tools" \in DOMAIN Creates[2].kwargs
    /\ "tools" \notin DOMAIN Creates[MAX_TOOL_ROUNDS + 1].kwargs
    /\ Len(Executes) >= 2

HasPreviousConversation(system) ==
    \E i \in 1..Len(system) : system[i] = "\n\nPrevious conversation:\n"

\* C16: the system text has the "Previous conversation:" section, with the
\* history, exactly when a non-empty history was given, and is the bare
\* system prompt otherwise; the transcript of the first call is the one user
\* message that holds the query.
C16_HistoryInSystem ==
    Len(Creates) >= 1 =>
        LET kw == Creates[1].kwargs
        IN  /\ kw.messages = << [role |-> "user", content |-> query] >>
            /\ HasPreviousConversation(kw.system) <=>
                  Truthy(conversation_history)
            /\ Truthy(conversation_history) =>
                  kw.system[Len(kw.system)] = conversation_history.some
            /\ ~Truthy(conversation_history) => kw.system = << SYSTEM_PROMPT >>

\* the empty string was given as history
C16_Witness ==
    /\ Len(Creates) >= 1
    /\ conversation_history = Some("")
    /\ Creates[1].kwargs.system = << SYSTEM_PROMPT >>

\* C17: the calls of the tool manager are the tool invocation requests of
\* the dispatched answers, each passed once, in order, with the name and the
\* arguments as issued, also after a dispatch raised.
C17_EachRequestDispatchedOnce ==
    LET requests == RequestsUpTo(DispatchedRounds)
    IN  /\ Len(Executes) <= Len(requests)
        /\ pc # "execute_tool" => Len(Executes) = Len(requests)
        /\ \A i \in 1..Len(Executes) :
              /\ Executes[i].name = requests[i].name
              /\ Executes[i].kwargs = requests[i].input

\* two rounds of two requests, one dispatch of which raised
C17_Witness ==
    /\ Terminated
    /\ Len(Executes) = 2 * MAX_TOOL_ROUNDS
    /\ tool_outcomes[2].kind = "raise"

\* a text, given as its pieces, contains the piece
Contains(pieces, piece) == \E i \in 1..Len(pieces) : pieces[i] = piece

\* the step is a dispatch of a name that is not registered
DispatchesUnknown ==
    /\ manager_call'.op = "execute_tool"
    /\ manager_call'.name \notin RegisteredNames(registered_tools)

\* C18: a dispatch of a name that is not registered returns a text that
\* contains "not found", raises nothing, and leaves the registered tools
\* and the sources of every tool as they were.
C18_UnknownToolNotFound ==
    [][DispatchesUnknown =>
          /\ manager_result'.kind = "return"
          /\ Contains(manager_result'.value, "not found")
          /\ registered_tools' = registered_tools
          /\ last_sources' = last_sources]_vars

\* "nonexistent_tool" asked of a manager that holds both tools, one of them
\* with sources
C18_Witness ==
    /\ manager_call = ExecuteToolCall("nonexistent_tool", EmptyResults)
    /\ manager_result = Return(NotFoundText("nonexistent_tool"))
    /\ Len(registered_tools) = 2
    /\ \E t \in SourceTools : Len(last_sources[t]) > 0

\* the step registers a tool whose definition has no name
RegistersNameless ==
    /\ manager_call'.op = "register_tool"
    /\ "name" \notin DOMAIN ToolDefinition(manager_call'.tool)

\* C19: registering a tool whose definition has no name raises an error (a
\* ValueError) whose message names the missing 'name', and the registered
\* tools stay as they were.
C19_NamelessToolRejected ==
    [][RegistersNameless =>
          /\ manager_result'.kind = "raise"
          /\ "ValueError" \in manager_result'.exc.isa
          /\ Contains(manager_result'.exc.message, "must have a 'name'")
          /\ registered_tools' = registered_tools]_vars

\* the nameless tool handed to a manager that holds a tool already
C19_Witness ==
    /\ manager_call = RegisterToolCall("bad_tool")
    /\ manager_result.kind = "raise"
    /\ Len(registered_tools) >= 1

NamesUnique ==
    \A i, j \in 1..Len(registered_tools) :
        registered_tools[i].name = registered_tools[j].name => i = j

\* the step registers a tool under a name that is registered already
RegistersDuplicate ==
    /\ manager_call'.op = "register_tool"
    /\ "name" \in DOMAIN ToolDefinition(manager_call'.tool)
    /\ ToolDefinition(manager_call'.tool).name
          \in RegisteredNames(registered_tools)

\* C20: no two registered tools have the same name, and registering a tool
\* under a name that is registered already raises a DefinitionError and
\* leaves the registered tools, the tool of that name among them, as they
\* were.
C20_NamesUnique ==
    /\ []NamesUnique
    /\ [][RegistersDuplicate =>
             /\ manager_result'.kind = "raise"
             /\ manager_result'.exc.type = "DefinitionError"
             /\ registered_tools' = registered_tools]_vars

\* the second search tool was refused, the first one is still the tool of
\* the name
C20_Witness ==
    /\ manager_call = RegisterToolCall("second_search_tool")
    /\ manager_result.kind = "raise"
    /\ \E i \in 1..Len(registered_tools) :
          registered_tools[i] =
              [name |-> "search_course_content", tool |-> "search_tool"]

\* the registered tools that keep sources hold none
NoSourcesHeld ==
    \A t \in RegisteredTools(registered_tools) \cap SourceTools :
        last_sources[t] = << >>

Holders == SelectSeq(registered_tools, LAMBDA r : r.tool \in SourceTools)

\* the number of source records held by the first k of them
RECURSIVE HeldUpTo(_)
HeldUpTo(k) ==
    IF k = 0 THEN 0 ELSE HeldUpTo(k - 1) + Len(last_sources[Holders[k].tool])

\* a query has ended, with an answer or with a failure
Ended(q) == rag_pc[q] \in {"done", "failed"}

\* C22: in every top-level query reset_sources is called exactly once, and
\* only after the sources of the query have been collected and the
\* orchestrator has returned its answer.
C22_ResetOncePerQuery ==
    \A q \in Threads :
        /\ Ended(q) => reset_calls[q] = 1
        /\ reset_calls[q] <= 1
        /\ reset_calls[q] > 0 => (~IsNone(collected[q]) /\ rag_pc[q] = "done")

\* C23: in any sequence of sequential top-level queries on the shared
\* registry, also after queries that ended with a completion-engine failure
\* after tools were dispatched, every tool's source list is empty when a
\* query begins, and the sources returned for a query are records of that
\* query's own dispatches only.
C23_NoStaleSources ==
    \A q \in Threads :
        /\ ~stale_start[q]
        /\ collected_from[q] \subseteq {query_id[q]}

\* C24: get_last_sources returns the source records of the registered tools
\* that keep sources, tool after tool in the order of registration, each
\* tool's records in their order: one holder's list when only one holds
\* sources, the empty sequence when none does.
C24_CollectInRegistrationOrder ==
    manager_call = GetLastSourcesCall =>
        /\ manager_result.kind = "return"
        /\ Len(manager_result.value) = HeldUpTo(Len(Holders))
        /\ \A k \in 1..Len(Holders) :
              \A i \in 1..Len(last_sources[Holders[k].tool]) :
                  manager_result.value[HeldUpTo(k - 1) + i] =
                      last_sources[Holders[k].tool][i]
        /\ NoSourcesHeld => manager_result.value = << >>
        /\ \A t \in SourceTools :
              (\A u \in SourceTools \ {t} : last_sources[u] = << >>) /\
              t \in RegisteredTools(registered_tools) =>
                  manager_result.value = last_sources[t]

\* two tools hold different sources, the one registered second holds more
C24_Witness ==
    /\ manager_call = GetLastSourcesCall
    /\ Len(Holders) = 2
    /\ Len(last_sources[Holders[1].tool]) = 1
    /\ Len(last_sources[Holders[2].tool]) = 2
    /\ Len(manager_result.value) = 3

\* the step is a search, with what the backend answered it
SearchStep ==
    /\ manager_call'.op = "execute_tool"
    /\ Searches(registered_tools, manager_call'.name)

\* every source record held after the step was held before it
NoNewSources ==
    \A t \in SourceTools :
        \A i \in 1..Len(last_sources'[t]) :
            \E j \in 1..Len(last_sources[t]) :
                last_sources[t][j] = last_sources'[t][i]

\* the sources collected for the query hold records of another query
Contaminated(q) ==
    \E id \in collected_from[q] : id # query_id[q]

\* the query's last search left records and the query collected none of them
MissedOwn(q) ==
    /\ ~IsNone(collected[q])
    /\ produced[q]
    /\ \/ collected[q].some = << >>
       \/ query_id[q] \notin collected_from[q]

\* C25: two top-level queries running concurrently on the shared registry,
\* unserialized, reach a state where the sources collected for one hold
\* records of the other's dispatch, or miss its own records because the
\* other reset them; a query whose sources are wrong in either way ran
\* while another query was under way, or began on sources left behind.
C25_CrossContamination ==
    \A q \in Threads :
        (Contaminated(q) \/ MissedOwn(q)) => (concurrent[q] \/ stale_start[q])

\* thread 1 collected the record of thread 2's search and reset it; thread 2
\* then collected nothing of what its search had left; neither began on
\* sources left behind
C25_Witness ==
    /\ ~stale_start[1] /\ ~stale_start[2]
    /\ concurrent[1] /\ concurrent[2]
    /\ Contaminated(1)
    /\ collected_from[1] = {query_id[2]}
    /\ reset_calls[1] = 1
    /\ produced[2]
    /\ collected[2] = Some(<< >>)
    /\ MissedOwn(2)

\* C26: a search that the backend answers with no document returns a text
\* that contains "No relevant content found", raises nothing and produces
\* no source record: whatever the tools hold after it they held before it.
C26_NoResultsNoSources ==
    [][(SearchStep /\ IsNone(manager_call'.results.error)
                   /\ Len(manager_call'.results.documents) = 0) =>
          /\ manager_result'.kind = "return"
          /\ Contains(manager_result'.value, "No relevant content found")
          /\ NoNewSources]_vars

\* nothing was found while another tool holds the sources of an earlier
\* dispatch
C26_Witness ==
    /\ manager_call = ExecuteToolCall("search_course_content", EmptyResults)
    /\ Searches(registered_tools, "search_course_content")
    /\ Contains(manager_result.value, "No relevant content found")
    /\ Len(last_sources["extra_tool"]) > 0

\* the last call was a search
Searched ==
    /\ manager_call.op = "execute_tool"
    /\ Searches(registered_tools, manager_call.name)

\* C27: a search that the backend answers with an error returns the error
\* text of the backend and raises nothing, so that the caller's "Tool
\* execution error" text is not made for it, and the text is not the one
\* of a search that found nothing.
C27_BackendErrorReturned ==
    (Searched /\ ~IsNone(manager_call.results.error)) =>
        /\ manager_result.kind = "return"
        /\ manager_result.value = << manager_call.results.error.some >>
        /\ \A i \in 1..Len(manager_result.value) :
              manager_result.value[i] #
                  ToolErrorText(manager_call.results.error.some)
        /\ ~Contains(manager_result.value, "No relevant content found")
        /\ manager_result.value # SearchExecute(EmptyResults).result.value

C27_Witness ==
    /\ Searched
    /\ manager_result = Return(<< "Search error: timeout" >>)
    /\ Len(registered_tools) >= 2

\* C28: after a search that the backend answers with n documents the tool
\* holds n source records, one per document in the order of the documents:
\* "<course_title> - Lesson <n>" with the lesson link for a document with a
\* lesson number, the course title alone with no link for one without.
C28_SourcesPerDocument ==
    (Searched /\ IsNone(manager_call.results.error)) =>
        LET held == last_sources[
                registered_tools[IndexOf(registered_tools,
                                         manager_call.name)].tool]
            metadata == manager_call.results.metadata
        IN  /\ Len(held) = Len(manager_call.results.documents)
            /\ \A i \in 1..Len(held) :
                  IF IsNone(metadata[i].lesson_number)
                  THEN /\ held[i].label = metadata[i].course_title
                       /\ IsNone(held[i].link)
                  ELSE /\ held[i].label =
                             metadata[i].course_title \o " - Lesson " \o
                             ToString(metadata[i].lesson_number.some)
                       /\ held[i].link =
                             GetLessonLink(metadata[i].course_title,
                                           metadata[i].lesson_number.some)

\* two documents, the first without and the second with a lesson number
C28_Witness ==
    /\ Searched
    /\ Len(manager_call.results.documents) = 2
    /\ IsNone(manager_call.results.metadata[1].lesson_number)
    /\ ~IsNone(manager_call.results.metadata[2].lesson_number)
    /\ Len(last_sources["search_tool"]) = 2
    /\ last_sources["search_tool"][2].label = "A - Lesson 1"

\* the endpoint has just handled a request
Handles == requests_served' = requests_served + 1

\* the number of sessions the request made the endpoint create
SessionsCreated == create_session_calls' - create_session_calls

\* the response carries the session id that was passed to the query
SessionPassedOn ==
    api_response'.status_code = 200 =>
        api_response'.session_id = rag_query_args'.some.session_id

C30_FinalRequestsNotDispatched ==
    (/\ Len(responses) = MAX_TOOL_ROUNDS + 1
     /\ IsResponse(responses[MAX_TOOL_ROUNDS + 1])
     /\ Len(responses[MAX_TOOL_ROUNDS + 1].content) > 0) =>
        /\ Len(Executes) = Len(RequestsUpTo(MAX_TOOL_ROUNDS))
        /\ Len(Creates) = MAX_TOOL_ROUNDS + 1
        /\ pc = "returned"
        /\ outcome.kind = "return"
        /\ TextFirst(responses[MAX_TOOL_ROUNDS + 1]) =>
              outcome.value = responses[MAX_TOOL_ROUNDS + 1].content[1].text

\* the assistant messages of a transcript: one per dispatch round
RoundsIn(msgs) == Len(SelectSeq(msgs, LAMBDA m : m.role = "assistant"))

\* the position in effects of the c-th completion-engine call
RECURSIVE CreateAt(_)
CreateAt(c) ==
    LET from == IF c = 1 THEN 1 ELSE CreateAt(c - 1) + 1
    IN  CHOOSE i \in from..Len(effects) :
            /\ effects[i].kind = "create"
            /\ \A j \in from..(i - 1) : effects[j].kind # "create"

\* the external calls of the query alternate: a completion-engine call, the
\* dispatches of a round, a completion-engine call, ...
CallsAlternate ==
    /\ Len(effects) > 0 => effects[1].kind = "create"
    /\ \A c \in 1..Len(Creates) : RoundsIn(Transcript(c)) = c - 1
    /\ \A c \in 2..Len(Creates) :
          /\ RequestsTools(responses[c - 1])
          /\ CreateAt(c) - CreateAt(c - 1) - 1 = Len(ToolUses(responses[c - 1]))
    /\ \A i \in 1..Len(effects) :
          effects[i].kind = "execute_tool" =>
              LET c == Len(SelectSeq(SubSeq(effects, 1, i),
                                     LAMBDA e : e.kind = "create"))
              IN  /\ c >= 1
                  /\ RequestsTools(responses[c])
    /\ Terminated =>
          /\ effects[Len(effects)].kind = "create"
          /\ Len(responses) = Len(Creates)
    /\ pc = "execute_tool" => effects[Len(effects)].kind = "execute_tool"
    /\ pc \in {"create_first", "create_next"} =>
          effects[Len(effects)].kind = "create"

\* what a step of the query leads to: a query begins with a call of the
\* engine, a round begins on an answer that requests tools, and a round ends
\* in the next call of the engine
StepsAlternate ==
    /\ (pc \in {"idle", "returned", "raised"} /\ pc' # pc) =>
          pc' = "create_first"
    /\ (pc # "execute_tool" /\ pc' = "execute_tool") =>
          /\ pc \in {"create_first", "create_next"}
          /\ RequestsTools(current_response')
    /\ (pc = "execute_tool" /\ pc' # "execute_tool") => pc' = "create_next"
    /\ (pc' \in {"returned", "raised"} /\ pc' # pc) =>
          pc \in {"create_first", "create_next"}

\* C31: completion-engine calls and dispatch rounds strictly alternate in a
\* query: it starts with a completion-engine call, every round follows an
\* answer that requests tools and is followed by exactly one
\* completion-engine call, and the query never ends right after a round
\* without that call.
C31_CallsAndRoundsAlternate ==
    /\ []CallsAlternate
    /\ [][StepsAlternate]_vars

\* a query that returned after MAX_TOOL_ROUNDS rounds of one dispatch each
C31_Witness ==
    /\ pc = "returned"
    /\ Len(effects) = 2 * MAX_TOOL_ROUNDS + 1
    /\ \A i \in 1..Len(effects) :
          effects[i].kind = IF i % 2 = 1 THEN "create" ELSE "execute_tool"

\* the dispatches begun and not yet ended
InFlight == Len(Executes) - Len(tool_outcomes)

\* the ids of the requests of the current answer before position i, in order
IdsBefore(i) ==
    LET uses == SelectSeq(SubSeq(current_response.content, 1, i - 1),
                          LAMBDA b : b.type = "tool_use")
    IN  [k \in 1..Len(uses) |-> uses[k].id]

\* at most one dispatch is under way, it is the dispatch of the request at
\* block_index, and every request before it has its result
DispatchesInOrder ==
    /\ InFlight \in {0, 1}
    /\ InFlight = 1 <=> pc = "execute_tool"
    /\ pc = "execute_tool" =>
          /\ block_index \in 1..Len(current_response.content)
          /\ current_response.content[block_index].type = "tool_use"
          /\ effects[Len(effects)] =
                ExecuteCall(current_response.content[block_index])
          /\ [k \in 1..Len(tool_results) |-> tool_results[k].tool_use_id] =
                IdsBefore(block_index)

\* a dispatch begins only when every dispatch begun before it has ended
DispatchBeginsAfterEnd ==
    Len(Executes') > Len(Executes) =>
        /\ Len(Executes') = Len(Executes) + 1
        /\ Len(tool_outcomes') = Len(Executes)

\* C32: within a round the tool invocation requests are dispatched one
\* after the other in the order they were issued: the dispatch of a request
\* begins only after the dispatch of the request before it has returned or
\* raised, and no two dispatches of a query overlap.
C32_SequentialDispatch ==
    /\ []DispatchesInOrder
    /\ [][DispatchBeginsAfterEnd]_vars

\* the second request of an answer is being dispatched after the dispatch
\* of the first one raised
C32_Witness ==
    /\ pc = "execute_tool"
    /\ block_index = 2
    /\ Len(ToolUses(current_response)) = 2
    /\ Len(tool_results) = 1
    /\ tool_outcomes[Len(tool_outcomes)].kind = "raise"
    /\ InFlight = 1

\* the answer asks for a round and holds no tool invocation request
EmptyRound(r) == RequestsTools(r) /\ Len(ToolUses(r)) = 0

\* C33: a tool-result message is appended to the transcript only when the
\* round produced a tool result, so no empty tool-result message is sent to
\* the engine; after an answer with termination reason tool_use and no tool
\* invocation request only the assistant message is appended, and the next
\* completion-engine call is made all the same.
C33_NoEmptyToolResultMessage ==
    /\ \A c \in 1..Len(Creates) :
          \A i \in 2..Len(Transcript(c)) :
              Transcript(c)[i].role = "user" =>
                  Len(Transcript(c)[i].content) > 0
    /\ \A c \in 2..Len(Creates) :
          LET before == Transcript(c - 1)
              after == Transcript(c)
              r == responses[c - 1]
          IN  IF Len(ToolUses(r)) > 0
              THEN /\ Len(after) = Len(before) + 2
                   /\ after[Len(after)].role = "user"
                   /\ Len(after[Len(after)].content) = Len(ToolUses(r))
              ELSE after = Append(before, AssistantMessage(r))
    /\ \A k \in 1..Len(responses) :
          (/\ k <= MAX_TOOL_ROUNDS
           /\ ~IsNone(tool_manager)
           /\ \A j \in 1..k : RequestsTools(responses[j])
           /\ EmptyRound(responses[k])) =>
              /\ Len(Creates) >= k + 1
              /\ Transcript(k + 1)[Len(Transcript(k + 1))] =
                    AssistantMessage(responses[k])

\* the first answer asked for a round without a request, and the second
\* call was made on the query and the assistant message alone
C33_Witness ==
    /\ Len(Creates) >= 2
    /\ EmptyRound(responses[1])
    /\ Len(responses[1].content) > 0
    /\ RolesOf(Transcript(2)) = << "user", "assistant" >>

\* the keyword arguments of a completion-engine call, the transcript and the
\* tool definitions left out
FixedParams(call) ==
    [k \in DOMAIN call.kwargs \ {"messages", "tools", "tool_choice"} |->
        call.kwargs[k]]

\* C34: the system context and the model parameters (model, temperature,
\* max_tokens) are the same on every completion-engine call of a query;
\* only the transcript and the presence of the tool definitions change from
\* call to call.
C34_SameParamsOnEveryCall ==
    \A c \in 1..Len(Creates) :
        /\ FixedParams(Creates[c]) = FixedParams(Creates[1])
        /\ DOMAIN FixedParams(Creates[c]) =
              {"model", "temperature", "max_tokens", "system"}
        /\ Creates[c].kwargs.system = SystemContent(conversation_history)
        /\ \A k \in DOMAIN base_params :
              Creates[c].kwargs[k] = base_params[k]
        /\ OffersTools(Creates[c]) =>
              /\ Creates[c].kwargs.tools = tools.some
              /\ Creates[c].kwargs.tool_choice = [type |-> "auto"]

\* three calls of a query with a conversation history: the second one
\* offers the tools, the third one does not, and the transcripts differ
C34_Witness ==
    /\ Len(Creates) = MAX_TOOL_ROUNDS + 1
    /\ Truthy(conversation_history)
    /\ Len(Creates[MAX_TOOL_ROUNDS + 1].kwargs.system) = 3
    /\ OffersTools(Creates[MAX_TOOL_ROUNDS])
    /\ ~OffersTools(Creates[MAX_TOOL_ROUNDS + 1])
    /\ Transcript(1) # Transcript(MAX_TOOL_ROUNDS + 1)

\* the calls of the completion engine a call of generate_response made
CreatesOf(c) == SelectSeq(c.effects, LAMBDA e : e.kind = "create")

\* the tool invocation requests of the first k answers the call got
RECURSIVE RequestsOf(_, _)
RequestsOf(c, k) ==
    IF k = 0 THEN << >> ELSE RequestsOf(c, k - 1) \o ToolUses(c.responses[k])

\* the text the call made of the outcome of its n-th dispatch
OutcomeText(c, n) ==
    IF c.tool_outcomes[n].kind = "return" THEN c.tool_outcomes[n].value
    ELSE ToolErrorText(c.tool_outcomes[n].exc)

\* the transcript after k rounds, built from what the call itself was given:
\* its query, the answers to its calls and the outcomes of its dispatches
RECURSIVE OwnTranscript(_, _)
OwnTranscript(c, k) ==
    IF k = 0 THEN << [role |-> "user", content |-> c.query] >>
    ELSE LET uses == ToolUses(c.responses[k])
             done == Len(RequestsOf(c, k - 1))
             results == [p \in 1..Len(uses) |->
                            ToolResultBlock(uses[p], OutcomeText(c, done + p))]
         IN  OwnTranscript(c, k - 1) \o
             << AssistantMessage(c.responses[k]) >> \o
             (IF Len(uses) > 0 THEN << ToolResultsMessage(results) >>
              ELSE << >>)

\* the answers the completion engine gives to the thread
AnswersTo(t) ==
    UNION { ThreadResponses(t, n) : n \in 1..(MAX_TOOL_ROUNDS + 1) }

\* C35: generate_response keeps no state of a query on the AIGenerator
\* object: however two calls on one instance interleave, the transcripts of
\* each hold its own query, assistant messages and tool results only, its
\* rounds are counted and bounded on their own, and base_params is never
\* modified.
C35_NoSharedQueryState ==
    /\ base_params = [model |-> MODEL, temperature |-> 0, max_tokens |-> 800]
    /\ \A t \in Threads :
          LET c == calls[t]
              creates == CreatesOf(c)
          IN  /\ c.pc # "idle" => c.query = QueryOf(t)
              /\ Len(creates) <= MAX_TOOL_ROUNDS + 1
              /\ c.round_count \in 0..(MAX_TOOL_ROUNDS - 1)
              /\ c.pc \in {"execute_tool", "create_next"} =>
                    c.round_count = RoundsIn(c.messages) - 1
              /\ \A n \in 1..Len(creates) :
                    /\ creates[n].kwargs.messages = OwnTranscript(c, n - 1)
                    /\ creates[n].kwargs.system = SystemContent(HistoryOf(t))
                    /\ \A k \in DOMAIN base_params :
                          creates[n].kwargs[k] = base_params[k]
                    /\ \A i \in 2..Len(creates[n].kwargs.messages) :
                          LET m == creates[n].kwargs.messages[i]
                          IN  m.role = "assistant" =>
                                 /\ \E r \in AnswersTo(t) : r.content = m.content
                                 /\ \A o \in Threads \ {t} :
                                       \A r \in AnswersTo(o) :
                                           r.content # m.content

\* thread 1 dispatches in its second round while thread 2 waits for the
\* engine after its first round, and both have tool results of their own
C35_Witness ==
    /\ calls[1].pc = "execute_tool"
    /\ calls[1].round_count = 1
    /\ Len(calls[1].tool_outcomes) = 1
    /\ calls[2].pc = "create_next"
    /\ calls[2].round_count = 0
    /\ Len(calls[2].messages) = 3
    /\ calls[2].messages[3].content[1].content = "tool result for q2"

====
